---- MODULE Spec2Model ----
(***************************************************************************)
(* zkTest1: a balance store and a Groth16 "balance >= neededAmount"        *)
(* prove/verify service (storeBalance, generateProof, validateProof) with  *)
(* the direct prover/verifier helpers of the test support file.            *)
(*                                                                         *)
(* Cryptography is modelled ideally: a key pair is identified by the       *)
(* groth16.Setup run that drew it, a proof by the run of its proving key   *)
(* and the public input it was built for.                                  *)
(***************************************************************************)
EXTENDS Integers, FiniteSets, Sequences, TLC

(* ------------------------------ bounds -------------------------------- *)
MaxAmount == 1          \* amounts and thresholds range over MinAmount..MaxAmount
MaxSlots == 3           \* requests served in one behaviour, all possibly in flight
MaxSetups == 2          \* direct helper calls that run groth16.Setup
MaxCalls == 2           \* handler invocations of the demo client in flight
MaxClientAmount == 2    \* the client's balance and amount fields range over 1..MaxClientAmount

MinAmount == 0 - 1
Amounts == MinAmount..MaxAmount
\* req.ID: a name, or the empty string that a body without an id field decodes to.
Ids == {"alice", ""}
Slots == 1..MaxSlots

(* ------------------------- the scalar field --------------------------- *)
\* ecc.BN254.ScalarField(): a 254-bit modulus, while a Go int has 64 bits.
\* Every int therefore has its own field element, and the negative ints sit
\* above every non-negative one.  The stand-in keeps exactly that relation.
FieldModulus == 4 * (MaxAmount + 1)

\* frontend.NewWitness assigns an int to a frontend.Variable by reducing it
\* into the field (a negative v becomes modulus - |v|).
ToField(v) == v % FieldModulus

(* ----------------------------- the circuit ---------------------------- *)
\* type BalanceCircuit: the fields with the option of their gnark tag.
BalanceCircuit == [Balance |-> "private", NeededAmount |-> "public"]

\* The schema reads the options "public" and "secret"; a field with neither
\* (here "private") gets the default visibility, secret.
VisibilityAllPublic(opt) == "public"
Visibility(opt) == IF opt = "public" THEN "public" ELSE "secret"

PublicFields == {f \in DOMAIN BalanceCircuit : Visibility(BalanceCircuit[f]) = "public"}
SecretFields == {f \in DOMAIN BalanceCircuit : Visibility(BalanceCircuit[f]) = "secret"}

\* frontend.Compile of &BalanceCircuit{}: the secret and the public
\* variables, the latter with the constant-one wire of every R1CS.
Compile ==
    [nbSecret |-> Cardinality(SecretFields),
     nbPublic |-> Cardinality(PublicFields) + 1,
     err |-> FALSE]

\* BalanceCircuit.Define: api.AssertIsLessOrEqual(NeededAmount, Balance), a
\* bitwise comparison of the two field elements.
DefineFlipped(w) == w.Balance <= w.NeededAmount
Define(w) == w.NeededAmount <= w.Balance

\* groth16.Setup(ccs): a key pair drawn with fresh randomness; run numbers
\* the call.
SetupDeterministic(run) == [pk |-> 1, vk |-> 1]
Setup(run) == [pk |-> run, vk |-> run]

\* frontend.NewWitness(&circuit, field) and its PublicOnly() form.
NewWitness(balance, neededAmount) ==
    [Balance |-> ToField(balance), NeededAmount |-> ToField(neededAmount)]
PublicOnly(w) == [f \in PublicFields |-> w[f]]
NewWitnessPublic(neededAmount) == PublicOnly(NewWitness(0, neededAmount))

NoProof == [run |-> 0, pub |-> 0]      \* the nil groth16.Proof

\* groth16.Prove(ccs, pk, witness): the solver fails on an unsatisfied
\* constraint, else the proof binds the proving key and the public input.
ProveAlways(pk, w) == [err |-> FALSE, proof |-> [run |-> pk, pub |-> w.NeededAmount]]
Prove(pk, w) ==
    IF Define(w)
    THEN [err |-> FALSE, proof |-> [run |-> pk, pub |-> w.NeededAmount]]
    ELSE [err |-> TRUE, proof |-> NoProof]

\* groth16.Verify(proof, vk, publicWitness): panics on a proof of no known
\* curve type (the nil interface), else checks the pairing equation.
VerifyAnyInput(proof, vk, pw) ==
    IF proof = NoProof THEN "panic"
    ELSE IF proof.run = vk THEN "ok" ELSE "err"
Verify(proof, vk, pw) ==
    IF proof = NoProof THEN "panic"
    ELSE IF proof.run = vk /\ proof.pub = pw.NeededAmount THEN "ok" ELSE "err"

(* --------------------------- JSON of a proof -------------------------- *)
\* json.NewEncoder(w).Encode(proof): the concrete proof struct as an object.
MarshalProof(p) == [shape |-> "object", proof |-> p]
RawNull == [shape |-> "null", proof |-> NoProof]        \* "proof": null
RawAbsent == [shape |-> "absent", proof |-> NoProof]    \* no proof field

\* json.Unmarshal(req.Proof, &proof) with proof a nil groth16.Proof
\* interface: null leaves it nil without an error; an object (or any other
\* value) cannot be decoded into a non-empty interface; no bytes is a
\* syntax error.
UnmarshalProof(raw) ==
    IF raw.shape = "null"
    THEN [err |-> FALSE, proof |-> NoProof]
    ELSE [err |-> TRUE, proof |-> NoProof]

(* ------------------------------- state -------------------------------- *)
VARIABLES
    balances,      \* the map balances: Ids -> amount, NoEntry when absent
    balancesMu,    \* the slot holding the mutex, 0 when free
    req,           \* the requests, one record per slot, in order of arrival
    setupRuns,     \* groth16.Setup calls made so far
    lastWrite,     \* history: per identity, the slot of the latest store that wrote it
    testProofs,    \* (proof, vk) pairs returned by GenerateTestProof
    testLast,      \* the last helper call and its result
    currentUser,   \* ZKDemoApp.currentUser
    currentProof,  \* ZKDemoApp.currentProof
    demoState,     \* ZKDemoApp.demoState
    form,          \* the input fields userName, userBalance, proofAmount
    calls          \* the client's handler invocations waiting at an await

client == <<currentUser, currentProof, demoState, form, calls>>
vars == <<balances, balancesMu, req, setupRuns, lastWrite, testProofs, testLast, client>>
server == <<balances, balancesMu, req, lastWrite>>
helper == <<testProofs, testLast>>

NoEntry == MinAmount - 1

StatusOK == 200
StatusBadRequest == 400
StatusUnauthorized == 401
StatusNotFound == 404
StatusInternalServerError == 500
\* groth16.Verify panicked: the handler ended and no status was written.  The
\* number only marks that outcome; it is no HTTP status.
Panicked == 599

Idle ==
    [kind |-> "none", pc |-> "idle", bad |-> FALSE, id |-> "", amount |-> 0,
     raw |-> RawAbsent,
     balance |-> 0, exists |-> FALSE, compiled |-> FALSE, key |-> 0,
     status |-> 0, resp |-> NoProof]

\* proofRun and vkRun record which Setup call the proof's proving key and the
\* verifying key came from.
NoCall == [op |-> "none", proof |-> NoProof, vk |-> 0, proofRun |-> 0, vkRun |-> 0,
           balance |-> 0, neededAmount |-> 0, ok |-> FALSE]

(* the demo client (web/script.js, class ZKDemoApp) *)
Names == {"Alice", "Bob"}                 \* contents of the userName field
ClientAmounts == 0..MaxClientAmount       \* contents of a number field, 0 for none

\* name.toLowerCase().replace(/\s+/g, '')
UserId(name) == CASE name = "Alice" -> "alice" [] name = "Bob" -> "bob" [] OTHER -> ""

NoUser == [id |-> "", balance |-> 0]                          \* currentUser = null
\* The body of a 200 response to a proof request, named by that request.
NoData == [id |-> "", amount |-> 0]
NoCurrentProof == [data |-> NoData, amount |-> 0, userId |-> ""]   \* currentProof = null
NoSteps == [step1 |-> FALSE, step2 |-> FALSE, step3 |-> FALSE]
\* resetDemo: 'Alice', '1000', '500'
DefaultForm == [userName |-> "Alice", userBalance |-> MaxClientAmount, proofAmount |-> 1]

Init ==
    /\ currentUser = NoUser
    /\ currentProof = NoCurrentProof
    /\ demoState = NoSteps
    /\ form = DefaultForm
    /\ calls = {}
    /\ balances = [i \in Ids |-> NoEntry]
    /\ balancesMu = 0
    /\ req = [r \in Slots |-> Idle]
    /\ setupRuns = 0
    /\ lastWrite = [i \in Ids |-> 0]
    /\ testProofs = {}
    /\ testLast = NoCall

\* Requests take the slots in order of arrival.
Free(r) == req[r].pc = "idle" /\ \A q \in Slots : q < r => req[q].pc # "idle"

Done(r) == req[r].pc = "done"

Finish(q, status, proof) == [q EXCEPT !.pc = "done", !.status = status, !.resp = proof]

\* The proofs the service has returned to its clients.
Issued == {req[r].resp : r \in {q \in Slots : Done(q) /\ req[q].kind = "proof"
                                              /\ req[q].status = StatusOK}}

(* --------------------- storeBalance (POST /store/sum) ----------------- *)
\* json Decode of the body, 400 when it is not decodable.
StoreBalanceDecodeZeroOnError(r, ok, id, amount) ==
    /\ Free(r)
    /\ req' = [req EXCEPT ![r] =
                 IF ok
                 THEN [Idle EXCEPT !.kind = "store", !.pc = "lock", !.id = id,
                                   !.amount = amount]
                 ELSE [Idle EXCEPT !.kind = "store", !.pc = "lock", !.bad = TRUE]]
    /\ UNCHANGED <<balances, balancesMu, setupRuns, helper, client, lastWrite>>
StoreBalanceDecodeRequireId(r, ok, id, amount) ==
    /\ Free(r)
    /\ req' = [req EXCEPT ![r] =
                 IF ok /\ id # ""
                 THEN [Idle EXCEPT !.kind = "store", !.pc = "lock", !.id = id,
                                   !.amount = amount]
                 ELSE Finish([Idle EXCEPT !.kind = "store", !.bad = ~ok, !.id = id],
                             StatusBadRequest, NoProof)]
    /\ UNCHANGED <<balances, balancesMu, setupRuns, helper, client, lastWrite>>
StoreBalanceDecode(r, ok, id, amount) ==
    /\ Free(r)
    /\ req' = [req EXCEPT ![r] =
                 IF ok
                 THEN [Idle EXCEPT !.kind = "store", !.pc = "lock", !.id = id,
                                   !.amount = amount]
                 ELSE Finish([Idle EXCEPT !.kind = "store", !.bad = TRUE],
                             StatusBadRequest, NoProof)]
    /\ UNCHANGED <<balances, balancesMu, setupRuns, helper, client, lastWrite>>

\* balancesMu.Lock()
StoreBalanceLock(r) ==
    /\ req[r].kind = "store" /\ req[r].pc = "lock"
    /\ balancesMu = 0
    /\ balancesMu' = r
    /\ req' = [req EXCEPT ![r].pc = "write"]
    /\ UNCHANGED <<balances, setupRuns, helper, client, lastWrite>>

\* balances[req.ID] = req.Amount
WriteEntryClear(b, id, amount) == [i \in Ids |-> IF i = id THEN amount ELSE NoEntry]
WriteIfAbsent(b, id, amount) == IF b[id] = NoEntry THEN [b EXCEPT ![id] = amount] ELSE b
WriteEntry(b, id, amount) == [b EXCEPT ![id] = amount]

StoreBalanceWrite(r) ==
    /\ req[r].kind = "store" /\ req[r].pc = "write"
    /\ balances' = WriteEntry(balances, req[r].id, req[r].amount)
    /\ lastWrite' = [lastWrite EXCEPT ![req[r].id] = r]
    /\ req' = [req EXCEPT ![r].pc = "unlock"]
    /\ UNCHANGED <<balancesMu, setupRuns, helper, client>>

\* balancesMu.Unlock(); w.WriteHeader(http.StatusOK)
StoreBalanceUnlock(r) ==
    /\ req[r].kind = "store" /\ req[r].pc = "unlock"
    /\ balancesMu' = 0
    /\ req' = [req EXCEPT ![r] = Finish(@, StatusOK, NoProof)]
    /\ UNCHANGED <<balances, setupRuns, helper, client, lastWrite>>

(* ------------- generateProof (POST /get/proof/neededAmount) ----------- *)
GenerateProofDecode(r, ok, id, neededAmount) ==
    /\ Free(r)
    /\ req' = [req EXCEPT ![r] =
                 IF ok
                 THEN [Idle EXCEPT !.kind = "proof", !.pc = "lock", !.id = id,
                                   !.amount = neededAmount]
                 ELSE Finish([Idle EXCEPT !.kind = "proof", !.bad = TRUE],
                             StatusBadRequest, NoProof)]
    /\ UNCHANGED <<balances, balancesMu, setupRuns, helper, client, lastWrite>>

GenerateProofLock(r) ==
    /\ req[r].kind = "proof" /\ req[r].pc = "lock"
    /\ balancesMu = 0
    /\ balancesMu' = r
    /\ req' = [req EXCEPT ![r].pc = "read"]
    /\ UNCHANGED <<balances, setupRuns, helper, client, lastWrite>>

\* balance, exists := balances[req.ID]  (the zero value when absent)
GenerateProofReadInsert(r) ==
    /\ req[r].kind = "proof" /\ req[r].pc = "read"
    /\ req' = [req EXCEPT ![r].pc = "unlock",
                          ![r].exists = (balances[req[r].id] # NoEntry),
                          ![r].balance = IF balances[req[r].id] # NoEntry
                                         THEN balances[req[r].id] ELSE 0]
    /\ balances' = [balances EXCEPT ![req[r].id] = req'[r].balance]
    /\ UNCHANGED <<balancesMu, setupRuns, helper, client, lastWrite>>
GenerateProofRead(r) ==
    /\ req[r].kind = "proof" /\ req[r].pc = "read"
    /\ req' = [req EXCEPT ![r].pc = "unlock",
                          ![r].exists = (balances[req[r].id] # NoEntry),
                          ![r].balance = IF balances[req[r].id] # NoEntry
                                         THEN balances[req[r].id] ELSE 0]
    /\ UNCHANGED <<balances, balancesMu, setupRuns, helper, client, lastWrite>>

GenerateProofUnlockLate(r) ==
    /\ req[r].kind = "proof" /\ req[r].pc = "unlock"
    /\ req' = [req EXCEPT ![r].pc = "prove"]
    /\ UNCHANGED <<balances, balancesMu, setupRuns, helper, client, lastWrite>>
GenerateProofUnlock(r) ==
    /\ req[r].kind = "proof" /\ req[r].pc = "unlock"
    /\ balancesMu' = 0
    /\ req' = [req EXCEPT ![r].pc = "prove"]
    /\ UNCHANGED <<balances, setupRuns, helper, client, lastWrite>>

\* The rest of the handler, which touches no shared state: the exists check
\* (404), frontend.Compile, groth16.Setup (run is the number of this call,
\* fails its error result), NewWitness, groth16.Prove, the JSON response.
ProveStepsNoCheck(q, run, fails) ==
    LET keys == Setup(run)
        res == Prove(keys.pk, NewWitness(q.balance, q.amount))
        c == [q EXCEPT !.compiled = TRUE]
        k == [c EXCEPT !.key = keys.pk]
    IN  IF fails THEN Finish(c, StatusInternalServerError, NoProof)
        ELSE IF res.err THEN Finish(k, StatusInternalServerError, NoProof)
        ELSE Finish(k, StatusOK, res.proof)
ProveStepsSetupErrIgnored(q, run, fails) ==
    LET keys == Setup(run)
        res == Prove(keys.pk, NewWitness(q.balance, q.amount))
        c == [q EXCEPT !.compiled = TRUE]
        k == [c EXCEPT !.key = keys.pk]
    IN  IF ~q.exists THEN Finish(q, StatusNotFound, NoProof)
        ELSE IF fails /\ res.err THEN Finish(c, StatusInternalServerError, NoProof)
        ELSE IF fails THEN Finish(c, StatusOK, res.proof)
        ELSE IF res.err THEN Finish(k, StatusInternalServerError, NoProof)
        ELSE Finish(k, StatusOK, res.proof)
ProveSteps(q, run, fails) ==
    LET keys == Setup(run)
        res == Prove(keys.pk, NewWitness(q.balance, q.amount))
        c == [q EXCEPT !.compiled = TRUE]
        k == [c EXCEPT !.key = keys.pk]
    IN  IF ~q.exists THEN Finish(q, StatusNotFound, NoProof)
        ELSE IF Compile.err THEN Finish(q, StatusInternalServerError, NoProof)
        ELSE IF fails THEN Finish(c, StatusInternalServerError, NoProof)
        ELSE IF res.err THEN Finish(k, StatusInternalServerError, NoProof)
        ELSE Finish(k, StatusOK, res.proof)

GenerateProofProve(r, fails) ==
    /\ req[r].kind = "proof" /\ req[r].pc = "prove"
    /\ req' = [req EXCEPT ![r] = ProveSteps(@, setupRuns + 1, fails)]
    /\ setupRuns' = IF req'[r].compiled THEN setupRuns + 1 ELSE setupRuns
    /\ UNCHANGED <<balances, balancesMu, helper, client, lastWrite>>

(* --------------------- validateProof (POST /validate) ----------------- *)
\* A well-formed proof that no groth16.Setup run of this process made (one from
\* an earlier process, or made up by the client).
ForeignProof == [run |-> 0 - 1, pub |-> 0]

\* The proof bodies a client can send: what the service emitted, a foreign
\* proof, null, none.
Raws == {RawNull, RawAbsent, MarshalProof(ForeignProof)}
           \cup {MarshalProof(p) : p \in Issued}

\* The whole handler, which touches no shared state: Decode (400),
\* frontend.Compile, groth16.Setup, the public witness, json.Unmarshal of
\* the proof (400), groth16.Verify (401), 200.  id is req.ID, which the
\* handler decodes and never reads, so the request record does not keep it.
ValidateStepsWithLookup(q, id, run, fails) ==
    IF balances[id] = NoEntry THEN Finish(q, StatusNotFound, NoProof)
    ELSE Finish([q EXCEPT !.compiled = TRUE, !.key = Setup(run).vk],
                IF UnmarshalProof(q.raw).err THEN StatusBadRequest ELSE Panicked,
                NoProof)
ValidateSteps(q, id, run, fails) ==
    LET keys == Setup(run)
        c == [q EXCEPT !.compiled = TRUE]
        k == [c EXCEPT !.key = keys.vk]
        pw == NewWitnessPublic(q.amount)
        dec == UnmarshalProof(q.raw)
        out == Verify(dec.proof, keys.vk, pw)
    IN  IF Compile.err THEN Finish(q, StatusInternalServerError, NoProof)
        ELSE IF fails THEN Finish(c, StatusInternalServerError, NoProof)
        ELSE IF dec.err THEN Finish(k, StatusBadRequest, NoProof)
        ELSE IF out = "panic" THEN Finish(k, Panicked, NoProof)
        ELSE IF out = "err" THEN Finish(k, StatusUnauthorized, NoProof)
        ELSE Finish(k, StatusOK, NoProof)

ValidateProof(r, ok, id, neededAmount, raw, fails) ==
    /\ Free(r)
    /\ req' = [req EXCEPT ![r] =
                 IF ok
                 THEN ValidateSteps([Idle EXCEPT !.kind = "validate",
                                                 !.amount = neededAmount, !.raw = raw],
                                    id, setupRuns + 1, fails)
                 ELSE Finish([Idle EXCEPT !.kind = "validate", !.bad = TRUE],
                             StatusBadRequest, NoProof)]
    /\ setupRuns' = IF req'[r].compiled THEN setupRuns + 1 ELSE setupRuns
    /\ UNCHANGED <<balances, balancesMu, helper, client, lastWrite>>

(* ------------- the direct prover/verifier helpers (TestHelper) -------- *)
\* CreateCircuitAndSetup, NewWitness, groth16.Prove; Fatalf when Prove fails.
GenerateTestProof(balance, neededAmount) ==
    /\ setupRuns < MaxSetups
    /\ setupRuns' = setupRuns + 1
    /\ LET keys == Setup(setupRuns')
           res == Prove(keys.pk, NewWitness(balance, neededAmount))
       IN  /\ testLast' = [op |-> "generate", proof |-> res.proof,
                           vk |-> IF res.err THEN 0 ELSE keys.vk,
                           proofRun |-> setupRuns', vkRun |-> setupRuns',
                           balance |-> balance, neededAmount |-> neededAmount,
                           ok |-> ~res.err]
           /\ testProofs' = IF res.err THEN testProofs
                            ELSE testProofs \cup
                                   {[proof |-> res.proof, vk |-> keys.vk,
                                     run |-> setupRuns',
                                     balance |-> balance, neededAmount |-> neededAmount]}
    /\ UNCHANGED <<server, client>>

\* public witness for neededAmount, groth16.Verify, err == nil.
VerifyTestProof(e, k, neededAmount) ==
    /\ testLast' = [op |-> "verify", proof |-> e.proof, vk |-> k.vk,
                    proofRun |-> e.run, vkRun |-> k.run,
                    balance |-> e.balance, neededAmount |-> neededAmount,
                    ok |-> (Verify(e.proof, k.vk, NewWitnessPublic(neededAmount)) = "ok")]
    /\ UNCHANGED <<server, client, setupRuns, testProofs>>

(* ------------------- the demo client (web/script.js) ------------------ *)
\* An invocation of a handler that waits at an await: pc is "delay" before
\* the request body is built and "fetch" once the request is sent; id,
\* amount and data are what the handler's locals or the sent body hold.
Call(op, pc, id, amount, data) ==
    [op |-> op, pc |-> pc, id |-> id, amount |-> amount, data |-> data]

\* isStepActive(stepId)
IsStepActive(stepId) ==
    CASE stepId = "step1" -> ~demoState.step1
      [] stepId = "step2" -> demoState.step1 /\ ~demoState.step2
      [] stepId = "step3" -> demoState.step2 /\ ~demoState.step3
      [] OTHER -> FALSE

\* input events of the three fields
InputUserName(name) ==
    /\ form' = [form EXCEPT !.userName = name]
    /\ UNCHANGED <<currentUser, currentProof, demoState, calls, server, setupRuns, helper>>
InputUserBalance(v) ==
    /\ form' = [form EXCEPT !.userBalance = v]
    /\ UNCHANGED <<currentUser, currentProof, demoState, calls, server, setupRuns, helper>>
InputProofAmount(v) ==
    /\ form' = [form EXCEPT !.proofAmount = v]
    /\ UNCHANGED <<currentUser, currentProof, demoState, calls, server, setupRuns, helper>>

\* handleSetBalance up to its await fetch; with an invalid field it only
\* shows an error.
HandleSetBalance ==
    /\ Cardinality(calls) < MaxCalls
    /\ form.userName # "" /\ form.userBalance > 0
    /\ calls' = calls \cup {Call("setBalance", "fetch", UserId(form.userName),
                                 form.userBalance, NoData)}
    /\ UNCHANGED <<currentUser, currentProof, demoState, form, server, setupRuns, helper>>

\* handleSetBalance after the await: response.ok or the catch block.
SetBalanceResponse(c, ok) ==
    /\ c \in calls /\ c.op = "setBalance"
    /\ calls' = calls \ {c}
    /\ IF ok
       THEN /\ currentUser' = [id |-> c.id, balance |-> c.amount]
            /\ demoState' = [demoState EXCEPT !.step1 = TRUE]
       ELSE UNCHANGED <<currentUser, demoState>>
    /\ UNCHANGED <<currentProof, form, server, setupRuns, helper>>

\* handleGenerateProof up to await this.delay(2000)
HandleGenerateProof ==
    /\ Cardinality(calls) < MaxCalls
    /\ currentUser # NoUser
    /\ form.proofAmount > 0
    /\ form.proofAmount <= currentUser.balance
    /\ calls' = calls \cup {Call("generate", "delay", "", form.proofAmount, NoData)}
    /\ UNCHANGED <<currentUser, currentProof, demoState, form, server, setupRuns, helper>>

\* after the delay the body is built from this.currentUser.id (a TypeError
\* when it is null, which the catch block ends the handler on).
GenerateProofSend(c) ==
    /\ c \in calls /\ c.op = "generate" /\ c.pc = "delay"
    /\ calls' = IF currentUser = NoUser THEN calls \ {c}
                ELSE (calls \ {c}) \cup {Call("generate", "fetch", currentUser.id,
                                               c.amount, NoData)}
    /\ UNCHANGED <<currentUser, currentProof, demoState, form, server, setupRuns, helper>>

\* after await fetch: currentProof = {data, amount, userId: this.currentUser.id}
\* and step2, or the catch block.
GenerateProofResponse(c, ok) ==
    /\ c \in calls /\ c.op = "generate" /\ c.pc = "fetch"
    /\ calls' = calls \ {c}
    /\ IF ok /\ currentUser # NoUser
       THEN /\ currentProof' = [data |-> [id |-> c.id, amount |-> c.amount],
                                amount |-> c.amount, userId |-> currentUser.id]
            /\ demoState' = [demoState EXCEPT !.step2 = TRUE]
       ELSE UNCHANGED <<currentProof, demoState>>
    /\ UNCHANGED <<currentUser, form, server, setupRuns, helper>>

\* handleVerifyProof up to await this.delay(1500)
HandleVerifyProof ==
    /\ Cardinality(calls) < MaxCalls
    /\ currentProof # NoCurrentProof
    /\ calls' = calls \cup {Call("verify", "delay", "", 0, NoData)}
    /\ UNCHANGED <<currentUser, currentProof, demoState, form, server, setupRuns, helper>>

\* after the delay the body is built from this.currentProof
VerifyProofSend(c) ==
    /\ c \in calls /\ c.op = "verify" /\ c.pc = "delay"
    /\ calls' = IF currentProof = NoCurrentProof THEN calls \ {c}
                ELSE (calls \ {c}) \cup {Call("verify", "fetch", currentProof.userId,
                                               currentProof.amount, currentProof.data)}
    /\ UNCHANGED <<currentUser, currentProof, demoState, form, server, setupRuns, helper>>

\* after await fetch: this.demoState.step3 = true, then the success message
\* (whose TypeError on a null currentProof comes after the assignment), or
\* the catch block.
VerifyProofResponse(c, ok) ==
    /\ c \in calls /\ c.op = "verify" /\ c.pc = "fetch"
    /\ calls' = calls \ {c}
    /\ demoState' = IF ok THEN [demoState EXCEPT !.step3 = TRUE] ELSE demoState
    /\ UNCHANGED <<currentUser, currentProof, form, server, setupRuns, helper>>

\* resetDemo; the invocations in flight go on.
ResetDemo ==
    /\ currentUser' = NoUser
    /\ currentProof' = NoCurrentProof
    /\ demoState' = NoSteps
    /\ form' = DefaultForm
    /\ UNCHANGED <<calls, server, setupRuns, helper>>

(* --------------------------- specifications --------------------------- *)
Next ==
    \/ \E r \in Slots, ok \in BOOLEAN, id \in Ids, amount \in Amounts :
          StoreBalanceDecode(r, ok, id, amount)
    \/ \E r \in Slots : StoreBalanceLock(r)
    \/ \E r \in Slots : StoreBalanceWrite(r)
    \/ \E r \in Slots : StoreBalanceUnlock(r)
    \/ \E r \in Slots, ok \in BOOLEAN, id \in Ids, neededAmount \in Amounts :
          GenerateProofDecode(r, ok, id, neededAmount)
    \/ \E r \in Slots : GenerateProofLock(r)
    \/ \E r \in Slots : GenerateProofRead(r)
    \/ \E r \in Slots : GenerateProofUnlock(r)
    \/ \E r \in Slots, fails \in BOOLEAN : GenerateProofProve(r, fails)
    \/ \E r \in Slots, ok \in BOOLEAN, id \in Ids, neededAmount \in Amounts,
          raw \in Raws, fails \in BOOLEAN :
          ValidateProof(r, ok, id, neededAmount, raw, fails)

Spec == Init /\ [][Next]_vars

NextHelper ==
    \/ \E balance \in Amounts, neededAmount \in Amounts :
          GenerateTestProof(balance, neededAmount)
    \/ \E e \in testProofs, k \in testProofs, neededAmount \in Amounts :
          VerifyTestProof(e, k, neededAmount)

SpecHelper == Init /\ [][NextHelper]_vars

\* The client against a server that answers each request with success or
\* failure.
NextClient ==
    \/ \E name \in Names : InputUserName(name)
    \/ \E v \in ClientAmounts : InputUserBalance(v)
    \/ \E v \in ClientAmounts : InputProofAmount(v)
    \/ HandleSetBalance
    \/ \E c \in calls, ok \in BOOLEAN : SetBalanceResponse(c, ok)
    \/ HandleGenerateProof
    \/ \E c \in calls : GenerateProofSend(c)
    \/ \E c \in calls, ok \in BOOLEAN : GenerateProofResponse(c, ok)
    \/ HandleVerifyProof
    \/ \E c \in calls : VerifyProofSend(c)
    \/ \E c \in calls, ok \in BOOLEAN : VerifyProofResponse(c, ok)
    \/ ResetDemo

SpecClient == Init /\ [][NextClient]_vars

(* ------------------------------ properties ---------------------------- *)
ProofReq(r) == Done(r) /\ req[r].kind = "proof" /\ ~req[r].bad
ValidateReq(r) == Done(r) /\ req[r].kind = "validate" /\ ~req[r].bad
StoreReq(r) == Done(r) /\ req[r].kind = "store" /\ ~req[r].bad
\* groth16.Setup returned without an error in request r.
SetupOk(r) == req[r].key # 0

\* C1: once a balance b is stored, a proof request for a threshold t with
\* 0 <= t <= b succeeds, and a validate request carrying that proof and the
\* same t answers 200 (internal Setup faults aside).
C1_StoreProveValidate ==
    \A p \in Slots :
       ProofReq(p) /\ req[p].exists /\ SetupOk(p)
          /\ 0 <= req[p].amount /\ req[p].amount <= req[p].balance
       => /\ req[p].status = StatusOK
          /\ \A v \in Slots :
                ValidateReq(v) /\ SetupOk(v)
                   /\ req[v].raw = MarshalProof(req[p].resp)
                   /\ req[v].amount = req[p].amount
                => req[v].status = StatusOK

\* C2: the key-pair setup is executed at most once in the life of the process.
C2_SetupAtMostOnce == setupRuns <= 1

\* C3: any two requests that obtained keys obtained the keys of the same
\* setup run.
C3_SameKeyPair ==
    \A r, q \in Slots :
       Done(r) /\ Done(q) /\ SetupOk(r) /\ SetupOk(q) => req[r].key = req[q].key

\* C4: a proof request that read a balance b for a threshold t with
\* 0 <= b < t does not answer 200 and its response carries no proof.
C4_InsufficientBalanceNoProof ==
    \A r \in Slots :
       ProofReq(r) /\ req[r].exists /\ 0 <= req[r].balance
          /\ req[r].balance < req[r].amount
       => req[r].status # StatusOK /\ req[r].resp = NoProof

C4_Witness ==
    \E r \in Slots :
       /\ ProofReq(r) /\ req[r].exists /\ SetupOk(r)
       /\ 0 <= req[r].balance /\ req[r].balance < req[r].amount
       /\ req[r].status = StatusInternalServerError

\* C6: a proof built for threshold t is rejected by the verifier for every
\* threshold t' # t, under the verifying key of its own setup run as under
\* any other.
C6_PublicInputBinding ==
    testLast.op = "verify"
    => \A e \in testProofs :
          e.proof = testLast.proof /\ e.neededAmount # testLast.neededAmount
          => ~testLast.ok

C6_Witness ==
    /\ testLast.op = "verify"
    /\ testLast.proofRun = testLast.vkRun
    /\ \E e \in testProofs :
          e.proof = testLast.proof /\ e.neededAmount # testLast.neededAmount
    /\ ~testLast.ok

\* C7: a proof made with the proving key of one setup run is rejected under
\* the verifying key of every other setup run.
C7_OtherKeyPairRejects ==
    testLast.op = "verify" /\ testLast.proofRun # testLast.vkRun => ~testLast.ok

C7_Witness ==
    /\ testLast.op = "verify"
    /\ testLast.proofRun # testLast.vkRun
    /\ \E e \in testProofs :
          e.proof = testLast.proof /\ e.neededAmount = testLast.neededAmount
    /\ ~testLast.ok

\* C8: with both keys from one setup run and 0 <= t <= b, the prover
\* succeeds and the verifier accepts the proof for the same t.
C8_ProveThenVerify ==
    /\ testLast.op = "generate"
          /\ 0 <= testLast.neededAmount /\ testLast.neededAmount <= testLast.balance
       => testLast.ok /\ testLast.proof # NoProof
    /\ testLast.op = "verify" /\ testLast.proofRun = testLast.vkRun
       => \A e \in testProofs :
             e.proof = testLast.proof /\ e.neededAmount = testLast.neededAmount
                /\ 0 <= e.neededAmount /\ e.neededAmount <= e.balance
             => testLast.ok

C8_Witness ==
    /\ testLast.op = "verify" /\ testLast.proofRun = testLast.vkRun
    /\ testLast.ok
    /\ \E e \in testProofs :
          /\ e.proof = testLast.proof /\ e.neededAmount = testLast.neededAmount
          /\ e.neededAmount = e.balance /\ e.balance = 0

\* C9: a proof request for an identity that has no entry in the store
\* answers 404, returns no proof, and compiles no circuit and runs no setup.
C9_UnknownIdentityNotFound ==
    \A r \in Slots :
       ProofReq(r) /\ balances[req[r].id] = NoEntry
       => /\ req[r].status = StatusNotFound
          /\ req[r].resp = NoProof
          /\ ~req[r].compiled
          /\ req[r].key = 0

C9_Witness ==
    \E r \in Slots :
       /\ ProofReq(r) /\ balances[req[r].id] = NoEntry
       /\ req[r].status = StatusNotFound
       /\ \E q \in Slots : q # r /\ ProofReq(q) /\ req[q].status = StatusOK

\* C10: a well-formed store request answers 200 and at that moment the store
\* maps its identity to its amount; an entry only ever changes to the amount
\* of the store request writing it (last write wins).
C10_StoreLastWriteWins ==
    /\ [](\A r \in Slots : StoreReq(r) => req[r].status = StatusOK)
    /\ [][/\ \A r \in Slots :
               req[r].kind = "store" /\ req[r].pc = "unlock" /\ req'[r].pc = "done"
               => req'[r].status = StatusOK
                  /\ balances'[req[r].id] = req[r].amount
          /\ \A i \in Ids :
               balances'[i] # balances[i]
               => \E r \in Slots :
                     /\ req[r].kind = "store" /\ req[r].id = i
                     /\ req[r].pc = "write" /\ req'[r].pc = "unlock"
                     /\ balances'[i] = req[r].amount]_vars

C10_Witness ==
    \E q, r \in Slots :
       /\ StoreReq(q) /\ StoreReq(r) /\ q # r
       /\ req[q].id = req[r].id /\ req[q].amount # req[r].amount
       /\ req[q].status = StatusOK /\ req[r].status = StatusOK
       /\ balances[req[r].id] = req[r].amount

\* C11: a balance lookup made once a store request for the same identity has
\* completed finds an entry, and reads the amount of the latest store that
\* wrote the identity (that store or one that wrote after it), whatever
\* store requests are in flight.
C11_ReadAfterWrite ==
    [][\A r \in Slots :
          req[r].kind = "proof" /\ req[r].pc = "read" /\ req'[r].pc = "unlock"
          => \A s \in Slots :
                StoreReq(s) /\ req[s].id = req[r].id
                => /\ req'[r].exists
                   /\ lastWrite[req[r].id] # 0
                   /\ req'[r].balance = req[lastWrite[req[r].id]].amount]_vars

C11_Witness ==
    \E r, s, u \in Slots :
       /\ req[r].kind = "proof" /\ req[r].pc = "unlock"
       /\ StoreReq(s) /\ req[s].id = req[r].id
       /\ req[u].kind = "store" /\ req[u].pc = "lock" /\ req[u].id = req[r].id
       /\ req[u].amount # req[s].amount
       /\ req[r].exists /\ req[r].balance = req[s].amount

C13_OutcomeOnlyThroughComparison ==
    \A p \in Slots :
       ProofReq(p) /\ req[p].exists /\ SetupOk(p)
       => /\ (req[p].status = StatusOK) <=> (req[p].amount <= req[p].balance)
          /\ req[p].status = StatusOK => req[p].resp.pub = ToField(req[p].amount)

C15_ConstraintVersusInternalFault ==
    \A p, q \in Slots :
       /\ ProofReq(p) /\ req[p].exists /\ SetupOk(p)
       /\ 0 <= req[p].balance /\ req[p].balance < req[p].amount
       /\ ProofReq(q) /\ req[q].compiled /\ ~SetupOk(q)
       => req[p].status # req[q].status

\* C16: a proof request for a stored identity whose balance is below the
\* threshold ends with another status than one for an identity that has no
\* entry.
C16_BelowThresholdVersusNotFound ==
    \A p, q \in Slots :
       /\ ProofReq(p) /\ req[p].exists /\ req[p].balance < req[p].amount
       /\ ProofReq(q) /\ ~req[q].exists
       => req[p].status # req[q].status

C16_Witness ==
    \E p, q \in Slots :
       /\ ProofReq(p) /\ req[p].exists /\ SetupOk(p)
       /\ 0 <= req[p].balance /\ req[p].balance < req[p].amount
       /\ req[p].status = StatusInternalServerError
       /\ ProofReq(q) /\ ~req[q].exists /\ req[q].status = StatusNotFound

\* C17: a validate request ends in 200, 401 or 400 (500 on an internal
\* fault only): 200 only when the proof verifies, never 400 for a
\* well-formed proof, which is either accepted or answered 401.
C17_ValidateOutcomes ==
    \A v \in Slots :
       ValidateReq(v)
       => IF req[v].compiled /\ ~SetupOk(v)
          THEN req[v].status = StatusInternalServerError
          ELSE /\ req[v].status \in {StatusOK, StatusUnauthorized, StatusBadRequest}
               /\ req[v].raw.shape = "object"
                  => req[v].status \in {StatusOK, StatusUnauthorized}
               /\ req[v].status = StatusOK
                  => Verify(req[v].raw.proof, req[v].key,
                            NewWitnessPublic(req[v].amount)) = "ok"

\* C18: no step of a proof or validate request changes the store; an entry
\* changes only in the write step of a store request.
C18_OnlyStoreWrites ==
    [][/\ \A r \in Slots :
             req'[r] # req[r] /\ req'[r].kind \in {"proof", "validate"}
             => balances' = balances
       /\ balances' # balances
          => \E r \in Slots :
                req[r].kind = "store" /\ req[r].pc = "write" /\ req'[r].pc = "unlock"]_vars

C18_Witness ==
    \E s, p, v \in Slots :
       /\ StoreReq(s) /\ ProofReq(p) /\ ValidateReq(v)
       /\ req[p].status = StatusOK
       /\ req[v].raw = MarshalProof(req[p].resp)
       /\ balances = [i \in Ids |-> IF i = req[s].id THEN req[s].amount ELSE NoEntry]

\* C19: with a stored balance b >= 0 and a threshold t < 0 the proof request
\* answers 200 with a proof, which a validate request with the same t
\* accepts.
C19_NegativeThresholdProves ==
    \A p \in Slots :
       ProofReq(p) /\ req[p].exists /\ SetupOk(p)
          /\ 0 <= req[p].balance /\ req[p].amount < 0
       => /\ req[p].status = StatusOK
          /\ \A v \in Slots :
                ValidateReq(v) /\ SetupOk(v)
                   /\ req[v].raw = MarshalProof(req[p].resp)
                   /\ req[v].amount = req[p].amount
                => req[v].status = StatusOK

\* C20: with a stored balance b < 0 and a threshold t >= 0 the proof request
\* does not answer 200 and returns no proof.
C20_NegativeBalanceFails ==
    \A p \in Slots :
       ProofReq(p) /\ req[p].exists /\ req[p].balance < 0 /\ 0 <= req[p].amount
       => req[p].status # StatusOK /\ req[p].resp = NoProof

\* C21: users on distinct identities, each running store, proof request,
\* validate, in any interleaving: a user who alone stored b >= 0 under the
\* identity and asks for t >= 0 gets a proof exactly when t <= b, and the
\* validate request carrying that proof and t answers 200.
C21_ConcurrentUsersAsAlone ==
    \A s, p \in Slots :
       /\ StoreReq(s) /\ ProofReq(p) /\ req[p].id = req[s].id
       /\ \A q \in Slots \ {s} : req[q].kind = "store" => req[q].id # req[s].id
       /\ req[p].exists /\ SetupOk(p)
       /\ 0 <= req[s].amount /\ 0 <= req[p].amount
       => /\ req[p].balance = req[s].amount
          /\ (req[p].status = StatusOK) <=> (req[p].amount <= req[s].amount)
          /\ \A v \in Slots :
                ValidateReq(v) /\ SetupOk(v)
                   /\ req[p].status = StatusOK
                   /\ req[v].raw = MarshalProof(req[p].resp)
                   /\ req[v].amount = req[p].amount
                => req[v].status = StatusOK

\* C22: the step in which a request's groth16.Setup fails ends that request
\* with 500 and no proof, keeps no key, and changes neither the store, the
\* mutex nor any other request; a later request runs Setup again and can
\* succeed (the witness).
C22_SetupFailureIsLocal ==
    [][\A r \in Slots :
          ~Done(r) /\ req'[r].pc = "done" /\ req'[r].compiled /\ ~SetupOk(r)'
          => /\ req'[r].status = StatusInternalServerError
             /\ req'[r].resp = NoProof
             /\ balances' = balances /\ balancesMu' = balancesMu
             /\ \A q \in Slots \ {r} : req'[q] = req[q]]_vars

C22_Witness ==
    \E r, q \in Slots :
       /\ r < q
       /\ ProofReq(r) /\ req[r].compiled /\ ~SetupOk(r)
       /\ req[r].status = StatusInternalServerError
       /\ ProofReq(q) /\ SetupOk(q) /\ req[q].status = StatusOK
       /\ req[q].id = req[r].id /\ req[q].amount = req[r].amount

\* C23: every compiled instance of the relation has one secret variable, the
\* balance, and two public ones, and the public witness of a validate
\* request has no balance.
C23_FixedShape ==
    \A r \in Slots :
       req[r].compiled
       => /\ Compile.nbSecret = 1 /\ Compile.nbPublic = 2
          /\ SecretFields = {"Balance"}
          /\ "Balance" \notin DOMAIN NewWitnessPublic(req[r].amount)

C23_Witness ==
    \E p, v \in Slots :
       /\ ProofReq(p) /\ req[p].compiled /\ req[p].status = StatusOK
       /\ ValidateReq(v) /\ req[v].compiled /\ SetupOk(v)

\* C24: the mutex is held exactly by the one request that is between its
\* Lock and its Unlock, around the map access: never by a request that is
\* computing or has ended, so that it is free whenever no request is at its
\* map access.
InCritical(r) ==
    \/ req[r].kind = "store" /\ req[r].pc \in {"write", "unlock"}
    \/ req[r].kind = "proof" /\ req[r].pc \in {"read", "unlock"}

C24_LockOnlyAroundMapAccess ==
    /\ \A r \in Slots : InCritical(r) <=> balancesMu = r
    /\ \A r, q \in Slots : InCritical(r) /\ InCritical(q) => r = q
    /\ \A r \in Slots :
          Done(r) \/ req[r].pc = "prove" \/ req[r].kind = "validate" => balancesMu # r
    /\ (\A r \in Slots : ~InCritical(r)) => balancesMu = 0

C24_Witness ==
    \E p, s, q \in Slots :
       /\ req[p].kind = "proof" /\ req[p].pc = "prove"
       /\ req[s].kind = "store" /\ req[s].pc = "write" /\ balancesMu = s
       /\ req[q].kind = "proof" /\ req[q].pc = "lock"

\* C25: a proof request reads the balance once: the value v it reads is the
\* stored balance at that instant, no later store changes it, and the proof
\* is issued exactly when threshold <= v.
C25_SingleSnapshot ==
    [][\A p \in Slots :
          /\ req[p].kind = "proof" /\ req[p].pc = "read" /\ req'[p].exists
             => req'[p].balance = balances[req[p].id]
          /\ req[p].kind = "proof" /\ req[p].pc \in {"unlock", "prove"}
             => req'[p].balance = req[p].balance /\ req'[p].exists = req[p].exists
          /\ req[p].kind = "proof" /\ req[p].pc = "prove" /\ req[p].exists /\ SetupOk(p)'
             => (req'[p].status = StatusOK) <=> (req[p].amount <= req[p].balance)]_vars

\* C26: a store request whose body cannot be decoded ends at once with 400
\* and leaves the store and the mutex as they were.
C26_BadStoreBodyRejected ==
    [][\A r \in Slots :
          req'[r] # req[r] /\ req'[r].kind = "store" /\ req'[r].bad
          => /\ req'[r].pc = "done" /\ req'[r].status = StatusBadRequest
             /\ balances' = balances /\ balancesMu' = balancesMu]_vars

C26_Witness ==
    \E s, b \in Slots :
       /\ s < b /\ StoreReq(s) /\ balances[req[s].id] = req[s].amount
       /\ Done(b) /\ req[b].kind = "store" /\ req[b].bad
       /\ req[b].status = StatusBadRequest

\* C27: no step of a store request for identity i changes the entry, or the
\* absence, of another identity.
C27_StoreChangesOnlyItsEntry ==
    [][\A r \in Slots :
          req'[r] # req[r] /\ req'[r].kind = "store"
          => \A j \in Ids \ {req'[r].id} : balances'[j] = balances[j]]_vars

C27_Witness ==
    \E s, u \in Slots :
       /\ s < u /\ StoreReq(s) /\ StoreReq(u) /\ req[s].id # req[u].id
       /\ req[s].amount # req[u].amount
       /\ balances[req[s].id] = req[s].amount
       /\ balances[req[u].id] = req[u].amount

\* C28: a request that ended wrote exactly one status, one of those of its
\* handler (store: 400, 200; proof: 400, 404, 500, 200; validate: 400, 500,
\* 401, 200), a proof goes with 200 only, and no status is written before
\* the end.
C28_OneOutcome ==
    \A r \in Slots :
       /\ Done(r) /\ req[r].kind = "store"
          => req[r].status \in {StatusBadRequest, StatusOK}
       /\ Done(r) /\ req[r].kind = "proof"
          => req[r].status \in {StatusBadRequest, StatusNotFound,
                                StatusInternalServerError, StatusOK}
       /\ Done(r) /\ req[r].kind = "validate"
          => req[r].status \in {StatusBadRequest, StatusInternalServerError,
                                StatusUnauthorized, StatusOK}
       /\ req[r].status # StatusOK => req[r].resp = NoProof
       /\ ~Done(r) => req[r].status = 0

\* C29: a store request without an id is answered 200 and its amount is
\* kept under the empty identity, where a following proof request with an
\* empty id finds it: no 404.
C29_EmptyIdStored ==
    /\ [](\A s \in Slots :
            StoreReq(s) /\ req[s].id = ""
            => /\ req[s].status = StatusOK
               /\ balances[""] # NoEntry
               /\ \A p \in Slots :
                     ProofReq(p) /\ req[p].id = "" /\ req[p].exists
                     => req[p].status # StatusNotFound)
    /\ [][\A p \in Slots :
            /\ req[p].kind = "proof" /\ req[p].pc = "read" /\ req[p].id = ""
            /\ req'[p].pc = "unlock"
            /\ \E s \in Slots : StoreReq(s) /\ req[s].id = ""
            => req'[p].exists]_vars

C29_Witness ==
    \E s, p \in Slots :
       /\ s < p /\ StoreReq(s) /\ req[s].id = "" /\ req[s].status = StatusOK
       /\ ProofReq(p) /\ req[p].id = "" /\ req[p].exists
       /\ req[p].balance = req[s].amount /\ req[p].status = StatusOK

\* C30: the step flags of the demo client stay ordered (step3 implies step2
\* implies step1) and at most one step is active, whatever actions the user
\* takes and whatever the server answers.
C30_StepFlagsOrdered ==
    /\ demoState.step3 => demoState.step2
    /\ demoState.step2 => demoState.step1
    /\ Cardinality({st \in {"step1", "step2", "step3"} : IsStepActive(st)}) <= 1

\* C31: every verify request the demo client sends carries the identity and
\* the threshold of the proof request whose response is the proof it
\* carries.
C31_VerifyCarriesProofRequest ==
    \A c \in calls :
       c.op = "verify" /\ c.pc = "fetch"
       => c.id = c.data.id /\ c.amount = c.data.amount

====
